---- MODULE Spec2Model ----
(***************************************************************************)
(* Lens Master: the product customizer (ProductCustomizer in src/App.tsx), *)
(* its price calculation, the advisory cache and the cart commit.          *)
(*                                                                         *)
(* JavaScript objects are sequences of <<key, value>> pairs, in insertion  *)
(* order, because JSON.stringify (the cache key) depends on that order.    *)
(* A nullable value is a sequence of length 0 (null) or 1 (the value).     *)
(* A JavaScript number is [nan, val]: NaN, or the finite value val.        *)
(***************************************************************************)
EXTENDS Integers, Sequences, FiniteSets, Bags, TLC

\* ------------------------------------------------------------------ bounds
\* shopper inputs during one run of the application: prescription edits,
\* file uploads, lens type / material choices and customizer sessions opened
\* after the first one, together
MaxInputs == 2
\* longest coating list given to the price calculation
MaxCoatings == 2

\* ------------------------------------------------------- nullable values
Null == <<>>
Some(v) == <<v>>

\* ------------------------------------------------------- objects (pairs)
Has(o, k) == \E i \in 1..Len(o) : o[i][1] = k
Get(o, k) == o[CHOOSE i \in 1..Len(o) : o[i][1] = k][2]
\* { ...a, ...b }: a's keys in a's order, b's value where b has the key,
\* then b's other keys in b's order
Spread(a, b) ==
  [i \in 1..Len(a) |-> IF Has(b, a[i][1]) THEN <<a[i][1], Get(b, a[i][1])>> ELSE a[i]]
    \o SelectSeq(b, LAMBDA e : ~Has(a, e[1]))

\* ---------------------------------------------------------- JSON.stringify
Quote(s) == "\"" \o s \o "\""
IsEyeKey(k) == k \in {"rightEye", "leftEye"}
RECURSIVE EyeMembers(_, _)
EyeMembers(e, i) ==
  IF i > Len(e) THEN ""
  ELSE Quote(e[i][1]) \o ":" \o Quote(e[i][2])
         \o (IF i < Len(e) THEN "," ELSE "") \o EyeMembers(e, i + 1)
StringifyEye(e) == "{" \o EyeMembers(e, 1) \o "}"
RECURSIVE TopMembers(_, _)
TopMembers(o, i) ==
  IF i > Len(o) THEN ""
  ELSE Quote(o[i][1]) \o ":"
         \o (IF IsEyeKey(o[i][1]) THEN StringifyEye(o[i][2]) ELSE Quote(o[i][2]))
         \o (IF i < Len(o) THEN "," ELSE "") \o TopMembers(o, i + 1)
JSONstringify(o) == "{" \o TopMembers(o, 1) \o "}"

\* ---------------------------------------------------------------- numbers
Num(n) == [nan |-> FALSE, val |-> n]
NaN == [nan |-> TRUE, val |-> 0]
\* a + b on numbers; undefined converts to NaN and NaN absorbs
JsAdd(a, b) == IF a.nan \/ b.nan THEN NaN ELSE Num(a.val + b.val)

\* ------------------------------------------------------------ constants.tsx
LensTypes == <<"Single Vision", "Bifocal", "Progressive">>
Materials == <<"Plastic", "Polycarbonate", "High Index">>
Coatings == <<"Anti-glare", "Blue Light", "UV Protection", "Scratch Resistant">>
LENS_PRICING ==
  [types |-> ("Single Vision" :> 50 @@ "Bifocal" :> 120 @@ "Progressive" :> 250),
   materials |-> ("Plastic" :> 0 @@ "Polycarbonate" :> 40 @@ "High Index" :> 100),
   coatings |-> ("Anti-glare" :> 30 @@ "Blue Light" :> 45 @@ "UV Protection" :> 20
                   @@ "Scratch Resistant" :> 25)]
\* table[k] as a number: a missing key reads undefined, which adds as NaN
Lookup(table, k) == IF k \in DOMAIN table THEN Num(table[k]) ELSE NaN

POWER_SPECTACLES == "Power Spectacles"
SUNGLASSES == "Sunglasses"
MOCK_PRODUCTS ==
  << [id |-> "1", category |-> SUNGLASSES, price |-> 159],
     [id |-> "2", category |-> POWER_SPECTACLES, price |-> 189],
     [id |-> "3", category |-> POWER_SPECTACLES, price |-> 210],
     [id |-> "4", category |-> SUNGLASSES, price |-> 299] >>

\* ------------------------------------------- ProductCustomizer: initial state
InitialEye == << <<"sph", "0.00">>, <<"cyl", "0.00">>, <<"axis", "0">> >>
InitialPrescription ==
  << <<"rightEye", InitialEye>>, <<"leftEye", InitialEye>>, <<"pd", "63">> >>
InitialLensSelection ==
  [type |-> "Single Vision", material |-> "Plastic", coatings |-> <<>>,
   priceAdjustment |-> 0]

\* ------------------------------------------------ inputs of the environment
\* the products the shopper opens the customizer for: one of each category
ProductChoices == {1, 2}
\* what the shopper can type into an input (the initial value and one other)
EditValues ==
  [sph |-> {"0.00", "-1.00"}, cyl |-> {"0.00", "0.50"}, axis |-> {"0", "90"},
   pd |-> {"63", "64"}]
\* what JSON.parse(response.text || '{}') can return: the schema marks no
\* property as required, so any subset of the properties can be missing
ExtractionResults ==
  { <<>>,
    << <<"leftEye", << <<"sph", "-2.00">>, <<"cyl", "0.50">>, <<"axis", "90">> >> >> >>,
    << <<"rightEye", << <<"sph", "-1.00">> >> >> >>,
    << <<"rightEye", InitialEye>>, <<"leftEye", InitialEye>>, <<"pd", "63">> >> }
\* response.text of the advisory call: empty (or undefined), or some advice
AdvisoryReplies == {"", "High Index is the best choice."}
FallbackRecommendation == "Based on your data, standard materials are suitable."
ExtractionAlert == "Could not analyze prescription. Please enter manually."

\* --------------------------------------------------------------------- state
VARIABLES
  sid,                \* number of customizer sessions opened so far
  mounted,            \* a ProductCustomizer is mounted (the session is live)
  product,            \* index of the selected product in MOCK_PRODUCTS, 0: none
  step, prescription, lensSelection,          \* useState of ProductCustomizer
  isAiLoading, lensRecommendation, isRecLoading,
  recommendationCache,                        \* module-level cache, App.tsx:40
  cart,                                       \* useState of App
  reads,              \* bag of sessions: FileReader reads in progress
  extractions,        \* bag of sessions: analyzePrescriptionImage calls in flight
  advisories,         \* bag of <<session, key>>: getLensRecommendation calls in flight
  inputs,             \* shopper inputs so far (bounded)
  calledKeys,         \* keys an advisory call has been issued for
  detour,             \* the latest session went back from step 2 to step 1
  last                \* effects of the last handler run outside the state

vars == << sid, mounted, product, step, prescription, lensSelection, isAiLoading,
           lensRecommendation, isRecLoading, recommendationCache, cart, reads,
           extractions, advisories, inputs, calledKeys, detour, last >>

sessionVars == << step, prescription, lensSelection, isAiLoading,
                  lensRecommendation, isRecLoading >>
callVars == << reads, extractions, advisories, calledKeys >>
countVars == << inputs >>

\* what a handler run did that the state does not show
\*   fetch       fetchRecommendation: not called / served from the cache / missed
\*   alert       the text passed to alert()
\*   uncaught    an exception left the handler uncaught
\*   staleSet    a state setter was called for a session already torn down
\*   staleCall   an external call was issued for a session already torn down
\*   navigate    navigate('/cart') was called
Quiet ==
  [fetch |-> "none", alert |-> "", uncaught |-> FALSE, staleSet |-> FALSE,
   staleCall |-> FALSE, navigate |-> FALSE]

Alive(s) == mounted /\ s = sid
isPower == mounted /\ MOCK_PRODUCTS[product].category = POWER_SPECTACLES

Init ==
  /\ sid = 0 /\ mounted = FALSE /\ product = 0
  /\ step = 1
  /\ prescription = InitialPrescription
  /\ lensSelection = InitialLensSelection
  /\ isAiLoading = FALSE
  /\ lensRecommendation = Null
  /\ isRecLoading = FALSE
  /\ recommendationCache = [k \in {} |-> ""]
  /\ cart = <<>>
  /\ reads = EmptyBag /\ extractions = EmptyBag /\ advisories = EmptyBag
  /\ inputs = 0
  /\ calledKeys = {}
  /\ detour = FALSE
  /\ last = Quiet

\* ------------------------------------------------------------ session life
\* a mount that keeps the advisory text of the component mounted before
MountState_KeepsAdvisory ==
  /\ step' = 1
  /\ prescription' = InitialPrescription
  /\ lensSelection' = InitialLensSelection
  /\ isAiLoading' = FALSE
  /\ lensRecommendation' = lensRecommendation
  /\ isRecLoading' = FALSE

\* App.tsx:271-287: the state a ProductCustomizer is mounted with
MountState ==
  /\ step' = 1
  /\ prescription' = InitialPrescription
  /\ lensSelection' = InitialLensSelection
  /\ isAiLoading' = FALSE
  /\ lensRecommendation' = Null
  /\ isRecLoading' = FALSE

\* the shopper picks a product in the shop and continues to /customize
OpenSession(p) ==
  /\ ~mounted
  /\ sid > 0 => inputs < MaxInputs
  /\ inputs' = IF sid > 0 THEN inputs + 1 ELSE inputs
  /\ sid' = sid + 1 /\ mounted' = TRUE /\ product' = p
  /\ MountState
  /\ detour' = FALSE
  /\ last' = Quiet
  /\ UNCHANGED << recommendationCache, cart, callVars >>

\* unmounting discards the component's state; calls in flight stay in flight
Unmount ==
  /\ mounted' = FALSE /\ product' = 0
  /\ MountState
  /\ UNCHANGED sid

\* a Navbar or footer link leaves /customize
NavigateAway ==
  /\ mounted
  /\ Unmount
  /\ last' = Quiet
  /\ UNCHANGED << detour, recommendationCache, cart, callVars, countVars >>

\* ------------------------------------------------------------ calculateTotal
\* App.tsx:296-298: coatings.forEach(c => extra += LENS_PRICING.coatings[c])
RECURSIVE CoatingsExtra(_, _, _)
CoatingsExtra(extra, coatings, i) ==
  IF i > Len(coatings) THEN extra
  ELSE CoatingsExtra(JsAdd(extra, Lookup(LENS_PRICING.coatings, coatings[i])),
                     coatings, i + 1)

\* calculateTotal without the isPower test: the lens adjustments are always added
calculateTotal_AlwaysExtra(prod, power, selection) ==
  CoatingsExtra(
    JsAdd(JsAdd(JsAdd(Num(prod.price), Num(0)),
                Lookup(LENS_PRICING.types, selection.type)),
          Lookup(LENS_PRICING.materials, selection.material)),
    selection.coatings, 1)

\* calculateTotal without the material adjustment
calculateTotal_NoMaterial(prod, power, selection) ==
  IF power
  THEN CoatingsExtra(JsAdd(Num(prod.price), Lookup(LENS_PRICING.types, selection.type)),
                     selection.coatings, 1)
  ELSE Num(prod.price)

\* App.tsx:291-301
calculateTotal(prod, power, selection) ==
  LET extra0 == Num(0)
      extra ==
        IF power
        THEN CoatingsExtra(
               JsAdd(JsAdd(extra0, Lookup(LENS_PRICING.types, selection.type)),
                     Lookup(LENS_PRICING.materials, selection.material)),
               selection.coatings, 1)
        ELSE extra0
  IN JsAdd(Num(prod.price), extra)

\* ------------------------------------------------------- fetchRecommendation
\* fetchRecommendation without the cache test: every request misses
CacheLookup_NeverHits(pData) ==
  [key |-> JSONstringify(pData), hit |-> FALSE, text |-> ""]

\* App.tsx:304-308: the key and the cache test of one call
CacheLookup(pData) ==
  LET cacheKey == JSONstringify(pData)
      cached == IF cacheKey \in DOMAIN recommendationCache
                THEN recommendationCache[cacheKey] ELSE ""
  IN [key |-> cacheKey, hit |-> cached # "", text |-> cached]

\* fetchRecommendation with setIsRecLoading(true) moved before the cache test
FetchRecommendation_LoadingFirst(s, pData, rec, loading) ==
  LET c == CacheLookup(pData) IN
  /\ lensRecommendation' = IF Alive(s) /\ c.hit THEN Some(c.text) ELSE rec
  /\ isRecLoading' = IF Alive(s) THEN TRUE ELSE loading
  /\ advisories' = IF c.hit THEN advisories
                   ELSE advisories (+) SetToBag({<<s, c.key>>})
  /\ calledKeys' = IF c.hit THEN calledKeys ELSE calledKeys \cup {c.key}
  /\ last' = [Quiet EXCEPT !.fetch = IF c.hit THEN "hit" ELSE "miss",
                           !.staleSet = ~Alive(s),
                           !.staleCall = ~Alive(s) /\ ~c.hit]

\* App.tsx:303-312, up to the await, run for session s; rec and loading are
\* the session's values when the call starts
FetchRecommendation(s, pData, rec, loading) ==
  LET c == CacheLookup(pData) IN
  /\ lensRecommendation' = IF Alive(s) /\ c.hit THEN Some(c.text) ELSE rec
  /\ isRecLoading' = IF Alive(s) /\ ~c.hit THEN TRUE ELSE loading
  /\ advisories' = IF c.hit THEN advisories
                   ELSE advisories (+) SetToBag({<<s, c.key>>})
  /\ calledKeys' = IF c.hit THEN calledKeys ELSE calledKeys \cup {c.key}
  /\ last' = [Quiet EXCEPT !.fetch = IF c.hit THEN "hit" ELSE "miss",
                           !.staleSet = ~Alive(s),
                           !.staleCall = ~Alive(s) /\ ~c.hit]

\* the success path that stores and shows the raw reply, without the fallback
\* for an empty one
AdvisorySucceeds_StoresRaw(s, key, reply) ==
  /\ <<s, key>> \in BagToSet(advisories)
  /\ advisories' = advisories (-) SetToBag({<<s, key>>})
  /\ recommendationCache' =
       [k \in DOMAIN recommendationCache \cup {key} |->
          IF k = key THEN reply ELSE recommendationCache[k]]
  /\ lensRecommendation' = IF Alive(s) THEN Some(reply) ELSE lensRecommendation
  /\ isRecLoading' = IF Alive(s) THEN FALSE ELSE isRecLoading
  /\ last' = [Quiet EXCEPT !.staleSet = ~Alive(s)]
  /\ UNCHANGED << sid, mounted, product, step, prescription, lensSelection,
                  isAiLoading, detour, cart, reads, extractions, calledKeys,
                  countVars >>

\* App.tsx:312-320: the advisory call of session s for key resolves with reply
AdvisorySucceeds(s, key, reply) ==
  LET cleanedRec == IF reply = "" THEN FallbackRecommendation ELSE reply IN
  /\ <<s, key>> \in BagToSet(advisories)
  /\ advisories' = advisories (-) SetToBag({<<s, key>>})
  /\ recommendationCache' =
       [k \in DOMAIN recommendationCache \cup {key} |->
          IF k = key THEN cleanedRec ELSE recommendationCache[k]]
  /\ lensRecommendation' = IF Alive(s) THEN Some(cleanedRec) ELSE lensRecommendation
  /\ isRecLoading' = IF Alive(s) THEN FALSE ELSE isRecLoading
  /\ last' = [Quiet EXCEPT !.staleSet = ~Alive(s)]
  /\ UNCHANGED << sid, mounted, product, step, prescription, lensSelection,
                  isAiLoading, detour, cart, reads, extractions, calledKeys,
                  countVars >>

\* a failure path that retries: the catch block issues the call again and
\* the request stays loading
AdvisoryFails_Retries(s, key) ==
  /\ <<s, key>> \in BagToSet(advisories)
  /\ advisories' = advisories
  /\ isRecLoading' = isRecLoading
  /\ last' = [Quiet EXCEPT !.staleCall = ~Alive(s)]
  /\ UNCHANGED << sid, mounted, product, step, prescription, lensSelection,
                  isAiLoading, lensRecommendation, detour, recommendationCache,
                  cart, reads, extractions, calledKeys, countVars >>

\* App.tsx:316-320: the advisory call of session s for key fails
AdvisoryFails(s, key) ==
  /\ <<s, key>> \in BagToSet(advisories)
  /\ advisories' = advisories (-) SetToBag({<<s, key>>})
  /\ isRecLoading' = IF Alive(s) THEN FALSE ELSE isRecLoading
  /\ last' = [Quiet EXCEPT !.staleSet = ~Alive(s)]
  /\ UNCHANGED << sid, mounted, product, step, prescription, lensSelection,
                  isAiLoading, lensRecommendation, detour, recommendationCache,
                  cart, reads, extractions, calledKeys, countVars >>

\* ------------------------------------------------------------ handleFileUpload
\* the upload control rendered for every product, power-category or not
Upload_AnyProduct ==
  /\ mounted /\ step = 1 /\ inputs < MaxInputs
  /\ inputs' = inputs + 1
  /\ isAiLoading' = TRUE
  /\ reads' = reads (+) SetToBag({sid})
  /\ last' = Quiet
  /\ UNCHANGED << sid, mounted, product, step, prescription, lensSelection,
                  lensRecommendation, isRecLoading, detour, recommendationCache,
                  cart, extractions, advisories, calledKeys >>

\* App.tsx:323-327, 342: a file is chosen at step 1 (no file: nothing happens)
Upload ==
  /\ isPower /\ step = 1 /\ inputs < MaxInputs
  /\ inputs' = inputs + 1
  /\ isAiLoading' = TRUE
  /\ reads' = reads (+) SetToBag({sid})
  /\ last' = Quiet
  /\ UNCHANGED << sid, mounted, product, step, prescription, lensSelection,
                  lensRecommendation, isRecLoading, detour, recommendationCache,
                  cart, extractions, advisories, calledKeys >>

\* App.tsx:328-331: onloadend; the read gave a data URL and the extraction
\* call is issued
ReadLoaded(s) ==
  /\ s \in BagToSet(reads)
  /\ reads' = reads (-) SetToBag({s})
  /\ extractions' = extractions (+) SetToBag({s})
  /\ last' = [Quiet EXCEPT !.staleCall = ~Alive(s)]
  /\ UNCHANGED << sid, mounted, product, sessionVars, detour, recommendationCache, cart,
                  advisories, calledKeys, countVars >>

\* App.tsx:328-329: onloadend after a failed read; reader.result is null and
\* .split throws before the try block is entered
ReadFailed(s) ==
  /\ s \in BagToSet(reads)
  /\ reads' = reads (-) SetToBag({s})
  /\ last' = [Quiet EXCEPT !.uncaught = TRUE]
  /\ UNCHANGED << sid, mounted, product, sessionVars, detour, recommendationCache, cart,
                  extractions, advisories, calledKeys, countVars >>

\* a merge that protects what the shopper typed: a top-level field of the
\* result is taken only where prev still has its initial value
MergeExtraction_KeepsEdits(prev, data) ==
  Spread(prev, SelectSeq(data, LAMBDA e : Get(prev, e[1]) = Get(InitialPrescription, e[1])))

\* the merge with the spreads swapped, ({ ...data, ...prev })
MergeExtraction_PrevWins(prev, data) == Spread(data, prev)

\* App.tsx:332: setPrescription(prev => ({ ...prev, ...data }))
MergeExtraction(prev, data) == Spread(prev, data)

\* the success path with the advisory fetch gated as in handleNextStep: it
\* is requested only when the session has no text and nothing is loading
ExtractionSucceeds_GatedFetch(s, data) ==
  /\ s \in BagToSet(extractions)
  /\ extractions' = extractions (-) SetToBag({s})
  /\ prescription' = IF Alive(s) THEN MergeExtraction(prescription, data)
                     ELSE prescription
  /\ IF lensRecommendation = Null /\ ~isRecLoading
     THEN FetchRecommendation(s, data, lensRecommendation, isRecLoading)
     ELSE /\ last' = [Quiet EXCEPT !.staleSet = ~Alive(s)]
          /\ UNCHANGED << lensRecommendation, isRecLoading, advisories, calledKeys >>
  /\ isAiLoading' = IF Alive(s) THEN FALSE ELSE isAiLoading
  /\ UNCHANGED << sid, mounted, product, step, lensSelection, detour,
                  recommendationCache, cart, reads, countVars >>

\* App.tsx:331-334, 338-340: the extraction call of session s returns data
ExtractionSucceeds(s, data) ==
  /\ s \in BagToSet(extractions)
  /\ extractions' = extractions (-) SetToBag({s})
  /\ prescription' = IF Alive(s) THEN MergeExtraction(prescription, data)
                     ELSE prescription
  /\ FetchRecommendation(s, data, lensRecommendation, isRecLoading)
  /\ isAiLoading' = IF Alive(s) THEN FALSE ELSE isAiLoading
  /\ UNCHANGED << sid, mounted, product, step, lensSelection, detour,
                  recommendationCache, cart, reads, countVars >>

\* the failure path without the catch block: only finally runs and the
\* rejection leaves the handler
ExtractionFails_Uncaught(s) ==
  /\ s \in BagToSet(extractions)
  /\ extractions' = extractions (-) SetToBag({s})
  /\ isAiLoading' = IF Alive(s) THEN FALSE ELSE isAiLoading
  /\ last' = [Quiet EXCEPT !.uncaught = TRUE, !.staleSet = ~Alive(s)]
  /\ UNCHANGED << sid, mounted, product, step, prescription, lensSelection,
                  lensRecommendation, isRecLoading, detour, recommendationCache,
                  cart, reads, advisories, calledKeys, countVars >>

\* App.tsx:335-340: the extraction call of session s fails
ExtractionFails(s) ==
  /\ s \in BagToSet(extractions)
  /\ extractions' = extractions (-) SetToBag({s})
  /\ isAiLoading' = IF Alive(s) THEN FALSE ELSE isAiLoading
  /\ last' = [Quiet EXCEPT !.alert = ExtractionAlert, !.staleSet = ~Alive(s)]
  /\ UNCHANGED << sid, mounted, product, step, prescription, lensSelection,
                  lensRecommendation, isRecLoading, detour, recommendationCache,
                  cart, reads, advisories, calledKeys, countVars >>

\* ------------------------------------------------------------- step 1 inputs
\* onChange without the inner spread,
\* setPrescription({...prescription, eye: {field: v}})
EditEyeField_DropsEye(eye, field, v) ==
  Spread(prescription, << <<eye, << <<field, v>> >> >> >>)

\* App.tsx:414-424: onChange of an eye input,
\* setPrescription({...prescription, eye: {...prescription.eye!, field: v}})
EditEyeField(eye, field, v) ==
  Spread(prescription, << <<eye, Spread(Get(prescription, eye), << <<field, v>> >>)>> >>)

\* App.tsx:430: onChange of the PD input
EditPd(v) == Spread(prescription, << <<"pd", v>> >>)

EditEye(eye, field, v) ==
  /\ isPower /\ step = 1 /\ inputs < MaxInputs
  /\ prescription' = EditEyeField(eye, field, v)
  /\ prescription' # prescription
  /\ inputs' = inputs + 1
  /\ last' = Quiet
  /\ UNCHANGED << sid, mounted, product, step, lensSelection, isAiLoading,
                  lensRecommendation, isRecLoading, detour, recommendationCache,
                  cart, callVars >>

EditPupillaryDistance(v) ==
  /\ isPower /\ step = 1 /\ inputs < MaxInputs
  /\ prescription' = EditPd(v)
  /\ prescription' # prescription
  /\ inputs' = inputs + 1
  /\ last' = Quiet
  /\ UNCHANGED << sid, mounted, product, step, lensSelection, isAiLoading,
                  lensRecommendation, isRecLoading, detour, recommendationCache,
                  cart, callVars >>

\* -------------------------------------------------------------- handleNextStep
\* handleNextStep behind a button rendered at every step: its else branch,
\* setStep(step + 1), then runs at steps 2 and 3
handleNextStep_AtEveryStep ==
  /\ isPower
  /\ IF step = 1
     THEN /\ step' = 2
          /\ IF lensRecommendation = Null /\ ~isRecLoading
             THEN FetchRecommendation(sid, prescription, lensRecommendation,
                                      isRecLoading)
             ELSE /\ last' = Quiet
                  /\ UNCHANGED << lensRecommendation, isRecLoading, advisories,
                                  calledKeys >>
     ELSE /\ step' = step + 1
          /\ step' <= 4
          /\ last' = Quiet
          /\ UNCHANGED << lensRecommendation, isRecLoading, advisories, calledKeys >>
  /\ UNCHANGED << sid, mounted, product, prescription, lensSelection, isAiLoading,
                  detour, recommendationCache, cart, reads, extractions, countVars >>

\* App.tsx:346-355; the button that calls it is rendered at step 1 only
handleNextStep ==
  /\ isPower /\ step = 1
  /\ IF step = 1
     THEN /\ step' = 2
          /\ IF lensRecommendation = Null /\ ~isRecLoading
             THEN FetchRecommendation(sid, prescription, lensRecommendation,
                                      isRecLoading)
             ELSE /\ last' = Quiet
                  /\ UNCHANGED << lensRecommendation, isRecLoading, advisories,
                                  calledKeys >>
     ELSE /\ step' = step + 1
          /\ last' = Quiet
          /\ UNCHANGED << lensRecommendation, isRecLoading, advisories, calledKeys >>
  /\ UNCHANGED << sid, mounted, product, prescription, lensSelection, isAiLoading,
                  detour, recommendationCache, cart, reads, extractions, countVars >>

\* ------------------------------------------------------------- step 2 buttons
\* the type button without the spread of the current selection: the other
\* attributes fall back to their initial values
SelectType_FromDefaults(t) ==
  /\ isPower /\ step = 2 /\ inputs < MaxInputs
  /\ lensSelection' = [InitialLensSelection EXCEPT !.type = t]
  /\ inputs' = inputs + 1
  /\ last' = Quiet
  /\ UNCHANGED << sid, mounted, product, step, prescription, isAiLoading,
                  lensRecommendation, isRecLoading, detour, recommendationCache,
                  cart, callVars >>

\* App.tsx:444: setLensSelection({...lensSelection, type})
SelectType(t) ==
  /\ isPower /\ step = 2 /\ inputs < MaxInputs
  /\ lensSelection' = [lensSelection EXCEPT !.type = t]
  /\ inputs' = inputs + 1
  /\ last' = Quiet
  /\ UNCHANGED << sid, mounted, product, step, prescription, isAiLoading,
                  lensRecommendation, isRecLoading, detour, recommendationCache,
                  cart, callVars >>

\* App.tsx:480: setLensSelection({...lensSelection, material})
SelectMaterial(m) ==
  /\ isPower /\ step = 2 /\ inputs < MaxInputs
  /\ lensSelection' = [lensSelection EXCEPT !.material = m]
  /\ inputs' = inputs + 1
  /\ last' = Quiet
  /\ UNCHANGED << sid, mounted, product, step, prescription, isAiLoading,
                  lensRecommendation, isRecLoading, detour, recommendationCache,
                  cart, callVars >>

\* App.tsx:491: Back at step 2, setStep(1)
BackToPrescription ==
  /\ isPower /\ step = 2
  /\ step' = 1
  /\ detour' = TRUE
  /\ last' = Quiet
  /\ UNCHANGED << sid, mounted, product, prescription, lensSelection, isAiLoading,
                  lensRecommendation, isRecLoading, recommendationCache, cart,
                  callVars, countVars >>

\* App.tsx:492: Review Final Total at step 2, setStep(3)
Review ==
  /\ isPower /\ step = 2
  /\ step' = 3
  /\ last' = Quiet
  /\ UNCHANGED << sid, mounted, product, prescription, lensSelection, isAiLoading,
                  lensRecommendation, isRecLoading, detour, recommendationCache,
                  cart, callVars, countVars >>

\* App.tsx:506: Back at step 3, setStep(2)
BackToLenses ==
  /\ isPower /\ step = 3
  /\ step' = 2
  /\ last' = Quiet
  /\ UNCHANGED << sid, mounted, product, prescription, lensSelection, isAiLoading,
                  lensRecommendation, isRecLoading, detour, recommendationCache,
                  cart, callVars, countVars >>

\* ---------------------------------------------------------------- handleFinish
\* the item built from the initial prescription instead of the current one
CartLineItem_Defaults(prod, power, presc, selection) ==
  [id |-> prod.id, category |-> prod.category, price |-> prod.price,
   finalPrice |-> calculateTotal(prod, power, selection),
   prescription |-> IF power THEN Some(InitialPrescription) ELSE Null,
   lensSelection |-> IF power THEN Some(selection) ELSE Null,
   customized |-> TRUE]

\* App.tsx:358-364: the item handed to addToCart
CartLineItem(prod, power, presc, selection) ==
  [id |-> prod.id, category |-> prod.category, price |-> prod.price,
   finalPrice |-> calculateTotal(prod, power, selection),
   prescription |-> IF power THEN Some(presc) ELSE Null,
   lensSelection |-> IF power THEN Some(selection) ELSE Null,
   customized |-> TRUE]

\* addToCart putting the item first, setCart(prev => [item, ...prev])
addToCart_Prepend(item) == cart' = <<item>> \o cart

\* App.tsx:822-824: setCart(prev => [...prev, item])
addToCart(item) == cart' = Append(cart, item)

\* Finish that waits for the advisory: disabled while isRecLoading
handleFinish_WaitsForAdvisory ==
  /\ mounted
  /\ isPower => step = 3
  /\ ~isRecLoading
  /\ addToCart(CartLineItem(MOCK_PRODUCTS[product], isPower, prescription,
                            lensSelection))
  /\ Unmount
  /\ last' = [Quiet EXCEPT !.navigate = TRUE]
  /\ UNCHANGED << detour, recommendationCache, callVars, countVars >>

\* App.tsx:357-366; the button is rendered at step 3, or alone on the page
\* of a product that is not power-category (App.tsx:368-387, 507)
handleFinish ==
  /\ mounted
  /\ isPower => step = 3
  /\ addToCart(CartLineItem(MOCK_PRODUCTS[product], isPower, prescription,
                            lensSelection))
  /\ Unmount
  /\ last' = [Quiet EXCEPT !.navigate = TRUE]
  /\ UNCHANGED << detour, recommendationCache, callVars, countVars >>

\* ------------------------------------------------------------ specification
Sessions == 1..sid
AdvisoryKeys == {a[2] : a \in BagToSet(advisories)}

Next ==
  \/ \E p \in ProductChoices : OpenSession(p)
  \/ NavigateAway
  \/ \E eye \in {"rightEye", "leftEye"}, field \in {"sph", "cyl", "axis"} :
       \E v \in EditValues[field] : EditEye(eye, field, v)
  \/ \E v \in EditValues.pd : EditPupillaryDistance(v)
  \/ Upload
  \/ \E s \in Sessions : ReadLoaded(s)
  \/ \E s \in Sessions : ReadFailed(s)
  \/ \E s \in Sessions, data \in ExtractionResults : ExtractionSucceeds(s, data)
  \/ \E s \in Sessions : ExtractionFails(s)
  \/ handleNextStep
  \/ \E i \in 1..Len(LensTypes) : SelectType(LensTypes[i])
  \/ \E i \in 1..Len(Materials) : SelectMaterial(Materials[i])
  \/ BackToPrescription
  \/ Review
  \/ BackToLenses
  \/ \E s \in Sessions, key \in AdvisoryKeys, reply \in AdvisoryReplies :
       AdvisorySucceeds(s, key, reply)
  \/ \E s \in Sessions, key \in AdvisoryKeys : AdvisoryFails(s, key)
  \/ handleFinish

Spec == Init /\ [][Next]_vars

\* ---------------------------------------- the price calculation on its own
\* coating lists handed to the calculation: the names of the pricing table
\* and one name that is not in it, in any order, repeats included
CoatingNames == {Coatings[i] : i \in 1..Len(Coatings)} \cup {"Tint"}
CoatingLists == UNION {[1..n -> CoatingNames] : n \in 0..MaxCoatings}

\* a session of any product, about to commit any lens selection
InitPricing ==
  /\ sid = 1 /\ mounted = TRUE
  /\ product \in 1..Len(MOCK_PRODUCTS)
  /\ step = IF MOCK_PRODUCTS[product].category = POWER_SPECTACLES THEN 3 ELSE 1
  /\ prescription = InitialPrescription
  /\ \E i \in 1..Len(LensTypes), j \in 1..Len(Materials), cs \in CoatingLists :
       lensSelection = [type |-> LensTypes[i], material |-> Materials[j],
                        coatings |-> cs, priceAdjustment |-> 0]
  /\ isAiLoading = FALSE
  /\ lensRecommendation = Null
  /\ isRecLoading = FALSE
  /\ recommendationCache = [k \in {} |-> ""]
  /\ cart = <<>>
  /\ reads = EmptyBag /\ extractions = EmptyBag /\ advisories = EmptyBag
  /\ inputs = 0
  /\ calledKeys = {}
  /\ detour = FALSE
  /\ last = Quiet

PricingSpec == InitPricing /\ [][handleFinish]_vars

\* ====================================================================== claims
CartItems == {cart[i] : i \in 1..Len(cart)}
PowerItems == {it \in CartItems : it.category = POWER_SPECTACLES}
Range(seq) == {seq[i] : i \in 1..Len(seq)}
ProductOf(id) == CHOOSE prod \in Range(MOCK_PRODUCTS) : prod.id = id

\* C1: a committed item of a product that is not power-category has finalPrice
\* equal to the product's base price and carries neither a prescription nor a
\* lens selection.
C1_NonPowerAtBasePrice ==
  \A it \in CartItems :
    it.category # POWER_SPECTACLES =>
      /\ it.finalPrice = Num(ProductOf(it.id).price)
      /\ it.prescription = Null
      /\ it.lensSelection = Null

\* a Sunglasses item has been committed at its base price
C1_Witness ==
  \E it \in CartItems :
    it.category = SUNGLASSES /\ it.price = 299 /\ it.finalPrice = Num(299)

\* C2: a committed item of a power-category product has finalPrice equal to
\* base price + type adjustment + material adjustment + the sum of the
\* adjustments of its selected coatings (each coating of the pricing table
\* selected at most once); base 189 with Progressive, High Index and
\* Anti-glare gives 569.
TypeAdjustment ==
  [t \in {"Single Vision", "Bifocal", "Progressive"} |->
     CASE t = "Single Vision" -> 50 [] t = "Bifocal" -> 120 [] t = "Progressive" -> 250]
MaterialAdjustment ==
  [m \in {"Plastic", "Polycarbonate", "High Index"} |->
     CASE m = "Plastic" -> 0 [] m = "Polycarbonate" -> 40 [] m = "High Index" -> 100]
CoatingAdjustment ==
  [c \in {"Anti-glare", "Blue Light", "UV Protection", "Scratch Resistant"} |->
     CASE c = "Anti-glare" -> 30 [] c = "Blue Light" -> 45
       [] c = "UV Protection" -> 20 [] c = "Scratch Resistant" -> 25]
RECURSIVE SumOfCoatings(_)
SumOfCoatings(S) ==
  IF S = {} THEN 0
  ELSE LET c == CHOOSE x \in S : TRUE IN CoatingAdjustment[c] + SumOfCoatings(S \ {c})
SelectedOnce(coatings) ==
  /\ Range(coatings) \subseteq DOMAIN CoatingAdjustment
  /\ Cardinality(Range(coatings)) = Len(coatings)

C2_PowerPriceIsSum ==
  \A it \in PowerItems :
    LET sel == it.lensSelection[1] IN
    /\ SelectedOnce(sel.coatings) =>
         it.finalPrice = Num(ProductOf(it.id).price + TypeAdjustment[sel.type]
                               + MaterialAdjustment[sel.material]
                               + SumOfCoatings(Range(sel.coatings)))
    /\ (it.price = 189 /\ sel.type = "Progressive" /\ sel.material = "High Index"
          /\ sel.coatings = <<"Anti-glare">>) => it.finalPrice = Num(569)

\* the spec's scenario has been committed
C2_Witness ==
  \E it \in PowerItems :
    /\ it.price = 189
    /\ it.lensSelection[1].type = "Progressive"
    /\ it.lensSelection[1].material = "High Index"
    /\ it.lensSelection[1].coatings = <<"Anti-glare">>
    /\ it.finalPrice = Num(569)

\* the keys an advisory call is issued for in a step
IssuedKeys ==
  {e[2] : e \in {x \in BagToSet(advisories') :
                   CopiesIn(x, advisories') > CopiesIn(x, advisories)}}
Cached(k) == k \in DOMAIN recommendationCache
EyeKeys == {"rightEye", "leftEye"}
EyeFields == {"sph", "cyl", "axis"}

\* C3 (as claimed): two advisory requests with the same cache key cause
\* exactly one external call, i.e. no advisory call is ever issued for a key
\* that a call has been issued for before.
C3_OneCallPerKey == [][IssuedKeys \cap calledKeys = {}]_vars

\* C3 (amended): an advisory request whose key has an entry in the
\* RecommendationCache issues no external call and is served from the cache:
\* the session's advisory text becomes the cached text. (Requests made while
\* a call for the same key is in flight, or after it failed, call again.)
C3_CachedKeyServedFromCache ==
  [][ /\ \A k \in IssuedKeys : ~Cached(k)
      /\ (isPower /\ step = 1 /\ step' = 2 /\ lensRecommendation = Null
            /\ ~isRecLoading /\ Cached(JSONstringify(prescription)))
           => /\ lensRecommendation' =
                   Some(recommendationCache[JSONstringify(prescription)])
              /\ advisories' = advisories
              /\ isRecLoading' = FALSE
              /\ last'.fetch = "hit"
      /\ \A data \in ExtractionResults :
           (mounted /\ ExtractionSucceeds(sid, data) /\ Cached(JSONstringify(data)))
             => /\ lensRecommendation' =
                     Some(recommendationCache[JSONstringify(data)])
                /\ advisories' = advisories
                /\ isRecLoading' = isRecLoading
                /\ last'.fetch = "hit"
    ]_vars

\* a request has just been served from the cache
C3_Witness == last.fetch = "hit" /\ mounted /\ lensRecommendation # Null

\* C4: a successful extraction leaves every top-level Prescription field the
\* result does not contain at its previous value and sets every field the
\* result contains to the returned value.
C4_TopLevelMerge ==
  [][ \A data \in ExtractionResults :
        (mounted /\ ExtractionSucceeds(sid, data)) =>
          \A k \in {"rightEye", "leftEye", "pd"} :
            /\ Has(prescription', k)
            /\ Get(prescription', k) =
                 IF Has(data, k) THEN Get(data, k) ELSE Get(prescription, k)
    ]_vars

\* the spec's example: right sph edited to -1.00, then a result with only
\* leftEye has just been merged
C4_Witness ==
  /\ mounted /\ step = 1 /\ last.fetch # "none"
  /\ Get(Get(prescription, "rightEye"), "sph") = "-1.00"
  /\ Get(prescription, "leftEye") =
       << <<"sph", "-2.00">>, <<"cyl", "0.50">>, <<"axis", "90">> >>
  /\ Get(prescription, "pd") = "63"

\* C5: the merge overlays field by field: each of the seven fields that the
\* extraction result does not carry keeps its value from before the merge.
ResultHasField(data, eye, f) == Has(data, eye) /\ Has(Get(data, eye), f)
C5_FieldByFieldOverlay ==
  [][ \A data \in ExtractionResults :
        (mounted /\ ExtractionSucceeds(sid, data)) =>
          /\ \A eye \in EyeKeys, f \in EyeFields :
               (Has(Get(prescription, eye), f) /\ ~ResultHasField(data, eye, f))
                 => /\ Has(Get(prescription', eye), f)
                    /\ Get(Get(prescription', eye), f) = Get(Get(prescription, eye), f)
          /\ ~Has(data, "pd") => Get(prescription', "pd") = Get(prescription, "pd")
    ]_vars

\* C6: handling a failed extraction leaves prescription, step and lens
\* selection as they were, triggers no advisory fetch, surfaces the failure
\* message and lets no exception escape.
C6_ExtractionFailureIsLocal ==
  [][ \A s \in 1..sid :
        ExtractionFails(s) =>
          /\ prescription' = prescription
          /\ step' = step
          /\ lensSelection' = lensSelection
          /\ advisories' = advisories
          /\ calledKeys' = calledKeys
          /\ last'.fetch = "none"
          /\ last'.alert = ExtractionAlert
          /\ ~last'.uncaught
    ]_vars

\* a failure has just been handled in a session whose prescription was edited
C6_Witness ==
  /\ mounted /\ last.alert = ExtractionAlert /\ ~last.staleSet
  /\ prescription # InitialPrescription

\* C7: after a session is torn down, a call of that session that resolves
\* calls no state setter and issues no further external call.
C7_TornDownSessionDiscards == ~last.staleSet /\ ~last.staleCall

\* C8: a step change leaves the prescription as it is, and the item committed
\* by Finish carries the session's current prescription.
C8_StepsKeepPrescription ==
  [][ /\ (mounted /\ mounted' /\ sid' = sid /\ step' # step)
           => prescription' = prescription
      /\ (isPower /\ last'.navigate)
           => /\ Len(cart') = Len(cart) + 1
              /\ cart'[Len(cart')].prescription = Some(prescription)
    ]_vars

\* Finish has just committed an edited prescription after the walk went back
\* from step 2 to step 1
C8_Witness ==
  /\ last.navigate /\ detour /\ cart # <<>>
  /\ cart[Len(cart)].category = POWER_SPECTACLES
  /\ cart[Len(cart)].prescription # Some(InitialPrescription)

\* C9: every committed item of a power-category product carries all seven
\* prescription fields.
Complete(p) ==
  /\ \A eye \in EyeKeys : Has(p, eye) /\ \A f \in EyeFields : Has(Get(p, eye), f)
  /\ Has(p, "pd")
C9_CommittedPrescriptionComplete ==
  \A it \in PowerItems : Complete(it.prescription[1])

\* C10: in a power-product session, whatever calls are pending or have
\* failed, the inputs of step 1 can be edited (while the input budget lasts),
\* Next is enabled at step 1, Review at step 2 and Finish at step 3.
EditSomeField ==
  \/ \E eye \in EyeKeys, f \in EyeFields : \E v \in EditValues[f] : EditEye(eye, f, v)
  \/ \E v \in EditValues.pd : EditPupillaryDistance(v)
C10_FlowNeverBlocked ==
  isPower =>
    /\ (step = 1 /\ inputs < MaxInputs) => ENABLED EditSomeField
    /\ step = 1 => ENABLED handleNextStep
    /\ step = 2 => ENABLED Review
    /\ step = 3 => ENABLED handleFinish
    /\ step \in {1, 2, 3}

\* step 3 with an extraction and an advisory call still pending
C10_Witness ==
  /\ isPower /\ step = 3 /\ isRecLoading /\ isAiLoading
  /\ advisories # EmptyBag /\ extractions # EmptyBag
  /\ ENABLED handleFinish

\* C11: an advisory request (from Next at step 1, or after an extraction has
\* returned) whose key is in the RecommendationCache sets the session's
\* advisory text to the cached text in that step, issues no external call and
\* leaves the advisory-loading flag as it was; the cache is not written.
C11_CacheHitIsSynchronous ==
  [][ /\ (handleNextStep /\ lensRecommendation = Null /\ ~isRecLoading
            /\ Cached(JSONstringify(prescription)))
           => /\ lensRecommendation' =
                   Some(recommendationCache[JSONstringify(prescription)])
              /\ isRecLoading' = isRecLoading
              /\ advisories' = advisories /\ calledKeys' = calledKeys
              /\ extractions' = extractions /\ reads' = reads
              /\ recommendationCache' = recommendationCache
      /\ \A s \in Sessions, data \in ExtractionResults :
           (ExtractionSucceeds(s, data) /\ Cached(JSONstringify(data)))
             => /\ Alive(s) => lensRecommendation' =
                                 Some(recommendationCache[JSONstringify(data)])
                /\ isRecLoading' = isRecLoading
                /\ advisories' = advisories /\ calledKeys' = calledKeys
                /\ reads' = reads
                /\ recommendationCache' = recommendationCache
    ]_vars

\* Next at step 1 has just been served from the cache: the text is shown at
\* step 2 with no call pending and the loading flag clear
C11_Witness ==
  /\ isPower /\ step = 2 /\ last.fetch = "hit"
  /\ Cached(JSONstringify(prescription))
  /\ lensRecommendation = Some(recommendationCache[JSONstringify(prescription)])
  /\ ~isRecLoading /\ advisories = EmptyBag

KnownKeys(sel) ==
  /\ sel.type \in DOMAIN TypeAdjustment
  /\ sel.material \in DOMAIN MaterialAdjustment
  /\ Range(sel.coatings) \subseteq DOMAIN CoatingAdjustment
InFlight(s) == \E a \in BagToSet(advisories) : a[1] = s
C14_NextFetchesForCurrentPrescription ==
  [][ handleNextStep =>
        /\ step' = 2
        /\ (JSONstringify(prescription) \in IssuedKeys)
             <=> (~Cached(JSONstringify(prescription)) /\ ~InFlight(sid))
    ]_vars

\* C15: in a power-product session the step is 1, 2 or 3, and a step change
\* within the session is one of 1 -> 2, 2 -> 3, 3 -> 2, 2 -> 1.
StepChanges == {<<1, 2>>, <<2, 3>>, <<3, 2>>, <<2, 1>>}
C15_StepsAreLinear ==
  [][ /\ isPower => step \in {1, 2, 3}
      /\ isPower' => step' \in {1, 2, 3}
      /\ (isPower /\ mounted' /\ sid' = sid /\ step' # step)
           => <<step, step'>> \in StepChanges
    ]_vars

\* the walk 1 -> 2 -> 1 -> 2 -> 3 has been made
C15_Witness == isPower /\ detour /\ step = 3 /\ last = Quiet

\* C16: a session that is opened starts at step 1 with sph "0.00", cyl "0.00",
\* axis "0" for each eye, pd "63", Single Vision, Plastic, no coatings, no
\* advisory text and no loading flag; opening it leaves the cache (and the
\* cart) as they were, and a call of an earlier session that resolves later
\* changes nothing of the open session's state.
DefaultEye == << <<"sph", "0.00">>, <<"cyl", "0.00">>, <<"axis", "0">> >>
StaleResolution(s) ==
  \/ ReadLoaded(s) \/ ReadFailed(s) \/ ExtractionFails(s)
  \/ \E data \in ExtractionResults : ExtractionSucceeds(s, data)
  \/ \E key \in AdvisoryKeys : AdvisoryFails(s, key)
  \/ \E key \in AdvisoryKeys, reply \in AdvisoryReplies : AdvisorySucceeds(s, key, reply)
C16_SessionStartsFresh ==
  [][ /\ sid' # sid =>
           /\ mounted' /\ step' = 1
           /\ prescription' = << <<"rightEye", DefaultEye>>, <<"leftEye", DefaultEye>>,
                                 <<"pd", "63">> >>
           /\ lensSelection'.type = "Single Vision"
           /\ lensSelection'.material = "Plastic"
           /\ lensSelection'.coatings = <<>>
           /\ lensRecommendation' = Null
           /\ ~isAiLoading' /\ ~isRecLoading'
           /\ recommendationCache' = recommendationCache
           /\ cart' = cart
      /\ \A s \in Sessions :
           (mounted /\ s # sid /\ StaleResolution(s)) => UNCHANGED sessionVars
    ]_vars

\* a second session is open, fresh, after a first one committed an edited
\* prescription and left a text in the cache
C16_Witness ==
  /\ sid = 2 /\ isPower /\ step = 1 /\ last = Quiet
  /\ prescription = InitialPrescription /\ lensRecommendation = Null
  /\ Len(cart) = 1 /\ cart[1].category = POWER_SPECTACLES
  /\ cart[1].prescription # Some(InitialPrescription)
  /\ DOMAIN recommendationCache # {}

\* C17: the cart changes only by Finish, which in a power-product session is
\* possible only at step 3; a Finish appends exactly one item, flagged
\* customized, after the items already in the cart, which stay as they are,
\* and ends the session with navigation to the cart.
C17_FinishAppendsOneItem ==
  [][ /\ (isPower /\ step # 3) => ~ENABLED handleFinish
      /\ (cart' # cart \/ last'.navigate) =>
           /\ mounted /\ (isPower => step = 3)
           /\ Len(cart') = Len(cart) + 1
           /\ SubSeq(cart', 1, Len(cart)) = cart
           /\ cart'[Len(cart')].customized = TRUE
           /\ cart'[Len(cart')].id = MOCK_PRODUCTS[product].id
           /\ ~mounted' /\ last'.navigate
    ]_vars

\* a power-product item has just been committed behind a different item
C17_Witness ==
  /\ last.navigate /\ ~mounted /\ Len(cart) = 2 /\ cart[1] # cart[2]
  /\ cart[2].category = POWER_SPECTACLES /\ cart[2].customized

\* C18: a manual edit of one prescription sub-field sets that sub-field and
\* leaves the other six fields (values merged by an earlier extraction
\* included), the step, the lens selection, the loading flags, the advisory
\* text and the cache unchanged, and issues no external call.
SameEyeField(eye, f) ==
  /\ Has(Get(prescription', eye), f) <=> Has(Get(prescription, eye), f)
  /\ Has(Get(prescription, eye), f)
       => Get(Get(prescription', eye), f) = Get(Get(prescription, eye), f)
EditFrame ==
  /\ UNCHANGED << step, lensSelection, isAiLoading, lensRecommendation,
                  isRecLoading, recommendationCache, cart >>
  /\ UNCHANGED << reads, extractions, advisories, calledKeys >>
  /\ last'.fetch = "none" /\ ~last'.staleCall
C18_EditChangesOneField ==
  [][ /\ \A eye \in EyeKeys, f \in EyeFields : \A v \in EditValues[f] :
           EditEye(eye, f, v) =>
             /\ Get(Get(prescription', eye), f) = v
             /\ \A e2 \in EyeKeys, f2 \in EyeFields :
                  <<e2, f2>> # <<eye, f>> => SameEyeField(e2, f2)
             /\ Get(prescription', "pd") = Get(prescription, "pd")
             /\ EditFrame
      /\ \A v \in EditValues.pd :
           EditPupillaryDistance(v) =>
             /\ Get(prescription', "pd") = v
             /\ \A e2 \in EyeKeys : Get(prescription', e2) = Get(prescription, e2)
             /\ EditFrame
    ]_vars

\* right cyl has been typed after an extraction that returned only right sph
\* was merged: the merged sph is still there
C18_Witness ==
  /\ isPower /\ step = 1 /\ last = Quiet
  /\ Get(prescription, "rightEye") = << <<"sph", "-1.00">>, <<"cyl", "0.50">> >>
  /\ Get(prescription, "leftEye") = InitialEye

\* C19: choosing a lens type or a material at step 2 sets that attribute of
\* the lens selection and leaves its other attributes, the prescription, the
\* step, the loading flags, the advisory text and the cache unchanged, and
\* issues no external call.
SelectFrame ==
  /\ UNCHANGED << step, prescription, isAiLoading, lensRecommendation,
                  isRecLoading, recommendationCache, cart >>
  /\ UNCHANGED << reads, extractions, advisories, calledKeys >>
  /\ lensSelection'.coatings = lensSelection.coatings
  /\ lensSelection'.priceAdjustment = lensSelection.priceAdjustment
  /\ last'.fetch = "none" /\ ~last'.staleCall
C19_SelectionChangesOneAttribute ==
  [][ /\ \A t \in Range(LensTypes) :
           SelectType(t) =>
             /\ step = 2 /\ lensSelection'.type = t
             /\ lensSelection'.material = lensSelection.material
             /\ SelectFrame
      /\ \A m \in Range(Materials) :
           SelectMaterial(m) =>
             /\ step = 2 /\ lensSelection'.material = m
             /\ lensSelection'.type = lensSelection.type
             /\ SelectFrame
    ]_vars

\* a type and a material have both been chosen at step 2
C19_Witness ==
  /\ isPower /\ step = 2 /\ last = Quiet /\ inputs = 2
  /\ lensSelection.type = "Progressive" /\ lensSelection.material = "High Index"

\* C20 (as claimed): when an advisory call of the open session fails, no call
\* is issued, the cache is not written, the advisory-loading flag is cleared
\* and the session has no advisory text afterwards.
FailureIsSilent(s, key) ==
  /\ advisories' = advisories (-) SetToBag({<<s, key>>})
  /\ UNCHANGED << reads, extractions, calledKeys >>
  /\ recommendationCache' = recommendationCache
  /\ Alive(s) => ~isRecLoading'
C20_FailureLeavesAdvisoryAbsent ==
  [][ \A s \in Sessions, key \in AdvisoryKeys :
        AdvisoryFails(s, key) =>
          /\ FailureIsSilent(s, key)
          /\ Alive(s) => lensRecommendation' = Null
    ]_vars

\* C20 (amended): when an advisory call fails, no call is issued, the cache
\* is not written, the advisory-loading flag of the open session is cleared
\* and the session's advisory text is left as it was: absent, unless another
\* request of the session has already supplied a text.
C20_FailureLeavesAdvisoryAsItWas ==
  [][ \A s \in Sessions, key \in AdvisoryKeys :
        AdvisoryFails(s, key) =>
          /\ FailureIsSilent(s, key)
          /\ lensRecommendation' = lensRecommendation
          /\ UNCHANGED << step, prescription, lensSelection, isAiLoading, cart >>
          /\ last'.alert = "" /\ ~last'.uncaught
    ]_vars

\* the only advisory call of the first session has failed: step 2 is shown
\* with no text, nothing loading and nothing cached
C20_Witness ==
  /\ sid = 1 /\ isPower /\ step = 2 /\ calledKeys # {}
  /\ advisories = EmptyBag /\ DOMAIN recommendationCache = {}
  /\ lensRecommendation = Null /\ ~isRecLoading

\* C21: a successful extraction makes an advisory request in the same step,
\* at any step and whether or not the session has a call in flight or a text
\* already: the request is for the returned data, served from the cache when
\* its key is there and sent as a new call otherwise. A failed extraction
\* makes no request.
C21_ExtractionTriggersAdvisory ==
  [][ /\ \A s \in Sessions, data \in ExtractionResults :
           ExtractionSucceeds(s, data) =>
             LET call == <<s, JSONstringify(data)>> IN
             /\ step' = step
             /\ last'.fetch = IF Cached(JSONstringify(data)) THEN "hit" ELSE "miss"
             /\ CopiesIn(call, advisories') =
                  CopiesIn(call, advisories)
                    + (IF Cached(JSONstringify(data)) THEN 0 ELSE 1)
      /\ \A s \in Sessions :
           ExtractionFails(s) => last'.fetch = "none" /\ advisories' = advisories
    ]_vars

\* an extraction has just returned at step 3 and sent its advisory call while
\* the call sent by Next was still in flight
C21_Witness ==
  /\ isPower /\ step = 3 /\ last.fetch = "miss"
  /\ BagCardinality(advisories) = 2
  /\ \A a \in BagToSet(advisories) : a[1] = sid

\* C22: an edit does not cancel or lock out an extraction in flight, and when
\* the extraction succeeds every eye and the pd that its result contains
\* hold the result's value, whatever the shopper typed meanwhile: a returned
\* eye has exactly the returned sub-fields (last writer wins).
C22_ExtractionOverwritesEdits ==
  [][ /\ EditSomeField => extractions' = extractions /\ reads' = reads
      /\ (isPower /\ step = 1 /\ inputs < MaxInputs /\ extractions # EmptyBag)
           => ENABLED EditSomeField
      /\ \A data \in ExtractionResults :
           (mounted /\ ExtractionSucceeds(sid, data)) =>
             /\ \A eye \in EyeKeys, f \in EyeFields :
                  Has(data, eye) =>
                    IF ResultHasField(data, eye, f)
                    THEN Get(Get(prescription', eye), f) = Get(Get(data, eye), f)
                    ELSE ~Has(Get(prescription', eye), f)
             /\ Has(data, "pd") => Get(prescription', "pd") = Get(data, "pd")
    ]_vars

\* right cyl was typed as 0.50 (Next then sent an advisory call for that
\* prescription) and the extraction that has just returned replaced the right
\* eye. An upload and an edit commute, so the state is the same whether the
\* edit came before or after the upload.
EditedRightCyl ==
  << <<"rightEye", << <<"sph", "0.00">>, <<"cyl", "0.50">>, <<"axis", "0">> >> >>,
     <<"leftEye", InitialEye>>, <<"pd", "63">> >>
C22_Witness ==
  /\ sid = 1 /\ isPower /\ step = 2 /\ last.fetch = "miss"
  /\ JSONstringify(EditedRightCyl) \in calledKeys
  /\ Get(prescription, "rightEye") = << <<"sph", "-1.00">> >>

\* C23: in a session of a product that is not power-category no file read,
\* extraction call or advisory call of the session exists, the step and the
\* rest of the session state stay as mounted, and of the session's actions
\* only Finish is enabled.
SessionAction ==
  \/ EditSomeField \/ Upload \/ handleNextStep \/ BackToPrescription
  \/ Review \/ BackToLenses
  \/ \E t \in Range(LensTypes) : SelectType(t)
  \/ \E m \in Range(Materials) : SelectMaterial(m)
C23_NonPowerBypassesSteps ==
  (mounted /\ ~isPower) =>
    /\ sid \notin BagToSet(reads) /\ sid \notin BagToSet(extractions)
    /\ ~InFlight(sid)
    /\ step = 1 /\ prescription = InitialPrescription
    /\ lensSelection = InitialLensSelection
    /\ lensRecommendation = Null /\ ~isAiLoading /\ ~isRecLoading
    /\ ~ENABLED SessionAction
    /\ ENABLED handleFinish

\* a Sunglasses session is open while an advisory call of an earlier
\* power-product session is still in flight
C23_Witness ==
  /\ mounted /\ ~isPower /\ sid = 2 /\ InFlight(1) /\ ENABLED handleFinish

\* C24: in an open session the advisory-loading flag is true exactly when at
\* least one advisory call of the session is in flight.
C24_LoadingFlagTracksCalls == mounted => (isRecLoading <=> InFlight(sid))

\* C25: in an open session the scanning indicator is on while an extraction
\* call of the session is in flight, and it is off once every file read and
\* extraction call of the session has completed, however they ended.
C25_ScanningIndicatorTracksUploads ==
  mounted =>
    /\ sid \in BagToSet(extractions) => isAiLoading
    /\ (sid \notin BagToSet(reads) /\ sid \notin BagToSet(extractions))
         => ~isAiLoading

\* C26: whenever step 2 shows an advisory text and no advisory call of the
\* session is in flight, the text is an answer for the session's current
\* prescription: an advisory call for the current prescription has succeeded,
\* so its key has an entry in the cache.
C26_AdvisoryIsForCurrentPrescription ==
  (isPower /\ step = 2 /\ lensRecommendation # Null /\ ~InFlight(sid))
    => Cached(JSONstringify(prescription))

\* C27: the advisory request made after a successful extraction is for the
\* merged prescription: a call it sends has the merged prescription's key,
\* and it sends none only when that key is already in the cache.
C27_ExtractionAdvisoryUsesMergedKey ==
  [][ \A data \in ExtractionResults :
        (mounted /\ ExtractionSucceeds(sid, data)) =>
          /\ IssuedKeys \subseteq {JSONstringify(prescription')}
          /\ IssuedKeys = {} => Cached(JSONstringify(prescription'))
    ]_vars

\* C28: on every committed item of a power-category product the
\* priceAdjustment of its lens selection equals the adjustment charged,
\* finalPrice minus the product's base price.
C28_PriceAdjustmentIsDerived ==
  \A it \in PowerItems :
    /\ ~it.finalPrice.nan
    /\ it.lensSelection[1].priceAdjustment =
         it.finalPrice.val - ProductOf(it.id).price

\* C29 (as claimed): a key that has an entry in the cache keeps it, with the
\* same text, in every later state, and every stored text is non-empty.
C29_CacheEntriesNeverChange ==
  [][ /\ \A k \in DOMAIN recommendationCache :
           /\ k \in DOMAIN recommendationCache'
           /\ recommendationCache'[k] = recommendationCache[k]
      /\ \A k \in DOMAIN recommendationCache' : recommendationCache'[k] # ""
    ]_vars

\* C29 (amended): a key that has an entry in the cache is never removed and
\* every stored text is non-empty, across sessions; the cache is written only
\* when an advisory call succeeds, at that call's key, and no call is sent
\* for a key that has an entry. (So the text of an entry is replaced only by
\* the answer of a call that was already in flight when the entry was made.)
WrittenKeys ==
  {k \in DOMAIN recommendationCache' :
     k \notin DOMAIN recommendationCache
       \/ recommendationCache'[k] # recommendationCache[k]}
C29_CacheOnlyGrows ==
  [][ /\ DOMAIN recommendationCache \subseteq DOMAIN recommendationCache'
      /\ \A k \in DOMAIN recommendationCache' : recommendationCache'[k] # ""
      /\ \A k \in WrittenKeys :
           /\ \E s \in Sessions : CopiesIn(<<s, k>>, advisories')
                                     = CopiesIn(<<s, k>>, advisories) - 1
           /\ WrittenKeys = {k}
      /\ \A k \in IssuedKeys : ~Cached(k)
      /\ sid' # sid => recommendationCache' = recommendationCache
    ]_vars

\* a second session is open and the cache holds two entries written during
\* the first, one of them the fallback text stored for an empty reply
C29_Witness ==
  /\ sid = 2 /\ mounted
  /\ Cardinality(DOMAIN recommendationCache) = 2
  /\ \E k \in DOMAIN recommendationCache :
       recommendationCache[k] = FallbackRecommendation

====
